---- MODULE Spec2Model ----
(***************************************************************************)
(* Model of the kernel process supervisor of spyder-remote-services:       *)
(* KernelProcess / KernelManager of                                        *)
(* src/spyder_remote_server/services/kernel_manager/core.py.               *)
(*                                                                         *)
(* and of the stream transfer channel, FSSpecWebSocketMixin of             *)
(* src/spyder_remote_services/services/fsspec/mixin.py.                    *)
(*                                                                         *)
(* Handlers are coroutines of one event loop: the code between two awaits  *)
(* is one atomic action.  Kernel processes and the runtime directory are   *)
(* the environment; their steps interleave freely with the handlers.       *)
(***************************************************************************)
EXTENDS Integers, FiniteSets, Sequences, TLC

\* ------------------------------------------------------------------ bounds
MaxProcs == 2
\* sleeps of the polling loop that the clock resolves one by one in Spec;
\* a later wake-up finds the timeout passed
MaxSleeps == 0
\* threads that call instance() or the constructor
MaxThreads == 2
\* length of the longest file on the disk of the stream channel
MaxSize == 4
\* CHUNK_SIZE is 2**20 in the source; the files of the model are a few bytes
\* long, so the frame size is scaled down with them
CHUNK_SIZE == 2
\* the over-read of read_block, 65536 in the source, scaled the same way
Margin == 2
\* messages one write_file transfer takes from the channel
MaxMsgs == 2
\* FileSession slots; a slot is free again once its session is destroyed
MaxSessions == 2
\* bytes the sessions may write into one file
MaxWrites == 1

\* ------------------------------------------------------- program constants
\* time is counted in milliseconds
TimeoutMs == 4000
PollMs == 100

Procs == 1..MaxProcs
Threads == 1..MaxThreads
\* one pid for each process that may ever be spawned
Pids == Procs
\* A kernel issues its own session key; the key kernel h writes is h.
Keys == Procs

NoFile == 0
Partial == -1

\* elapsed time saturates one poll interval past the timeout: the code only
\* compares it with the timeout
ElapsedCap == TimeoutMs + PollMs
Elapsed == {n * PollMs : n \in 0..(ElapsedCap \div PollMs)}
\* the clock readings of Spec
Readings == {e \in Elapsed : e <= MaxSleeps * PollMs \/ e = ElapsedCap}

\* ------------------------------------------------------ stream channel data
\* byte values the files are made of: "\n" and a byte that is not ASCII
ByteVals == {10, 255}
Min(a, b) == IF a <= b THEN a ELSE b
Max(a, b) == IF a >= b THEN a ELSE b
SeqsUpTo(S, n) == UNION {[1..m -> S] : m \in 0..n}
Contents == SeqsUpTo(ByteVals, MaxSize)
\* an optional argument: {} is None, {v} is the value v
Opt(S) == {{}} \cup {{v} : v \in S}
Val(o) == CHOOSE v \in o : TRUE
\* integers a request may carry
ArgInts == (-1)..(MaxSize + 1)
Paths == {"file", "dir", "missing"}
\* the delimiter argument: None, bytes (a direct call), or the str that
\* orjson.loads makes of a JSON string
NoDelim == [kind |-> "None", val |-> <<>>]
Delims ==
    {NoDelim} \cup
    {[kind |-> "bytes", val |-> v] : v \in {<<>>, <<10>>, <<10, 10>>}} \cup
    {[kind |-> "str", val |-> <<10>>]}
\* prior is what the channel's previous message was, "none" if it is not followed
NoReq == [method |-> "none", path |-> "missing", a |-> {}, b |-> {}, delim |-> NoDelim,
          prior |-> "none"]
DiskWith(content) ==
    [p \in Paths |-> [kind |-> p, data |-> IF p = "file" THEN content ELSE <<>>]]

VARIABLES
    kernels,     \* KernelManager.kernels: session key -> handle
    proc,        \* handle -> the KernelProcess and its OS process
    files,       \* runtime directory: pid -> content of kernel-<pid>.json
    startCall,   \* handle -> the start_kernel call that spawned it
    stopCall,    \* handle -> the stop_kernel call that popped it
    reply,       \* outcome of the call that has just returned, if any
    phase,       \* "serving", "teardown" (inside __del__), "exited"
    tdCur,       \* handle __del__ is joining, 0 if none
    tdDone,      \* handles __del__ has terminated and joined
    loopBusy,    \* the event loop thread is inside a blocking call
    inst,        \* KernelManager._instance: 0 is None, else the object
    lockOwner,   \* thread holding KernelManager.__rlock, 0 if free
    lockDepth,   \* how many times the owner has acquired it
    inside,      \* KernelManager.__inside_instance
    nobj,        \* KernelManager objects constructed so far
    tpc,         \* thread -> where it is in instance() / the constructor
    tkind,       \* thread -> "instance" or "direct" (a bare KernelManager())
    tnew,        \* thread -> the object __new__ made for it, 0 if none
    tres,        \* thread -> 0 no result, -1 RuntimeError, else the object
    disk,        \* path -> what the file system holds there
    chan,        \* the websocket: "open", or "closed" once the peer is gone
    hpc,         \* on_message: "idle", "stream" (_stream_file), "recv" (write loop), "done"
    req,         \* the request on_message is serving or has served last
    fpos,        \* _stream_file: position of the read handle
    remaining,   \* _stream_file: bytes still to send
    fh,          \* _handle_write_file: the handle f, "none", "open", "closed"
    out,         \* messages written to the websocket for req, in order
    escaped,     \* an exception left on_message
    nrecv,       \* messages read_message has handed to the write loop
    endedBy,     \* how the write loop ended, "none" while it has not
    received,    \* payloads of the data messages the write loop has read, in order
    sessions,    \* FileSession slots on one target path
    target       \* that path on disk: the real file, its shadow, its lock marker

kvars == <<kernels, proc, files, startCall, stopCall, reply, phase, tdCur,
           tdDone, loopBusy>>
svars == <<inst, lockOwner, lockDepth, inside, nobj, tpc, tkind, tnew, tres>>
fvars == <<disk, chan, hpc, req, fpos, remaining, fh, out, escaped, nrecv,
           endedBy, received>>
lvars == <<sessions, target>>
vars == <<kvars, svars, fvars, lvars>>

EmptyRegistry == [k \in {} |-> 0]

NoProc == [st |-> "unborn", pid |-> 0, wrote |-> 0, term |-> 0, kill |-> 0]
NoStart == [pc |-> "none", elapsed |-> 0, key |-> 0]
NoStop == [pc |-> "none", key |-> 0, result |-> FALSE]
NoReply == [op |-> "none", key |-> 0, err |-> "none", keys |-> {}, val |-> 0]

KernelInit ==
    /\ kernels = EmptyRegistry
    /\ proc = [h \in Procs |-> NoProc]
    /\ files = [p \in Pids |-> NoFile]
    /\ startCall = [h \in Procs |-> NoStart]
    /\ stopCall = [h \in Procs |-> NoStop]
    /\ reply = NoReply
    /\ phase = "serving"
    /\ tdCur = 0
    /\ tdDone = {}
    /\ loopBusy = FALSE

ThreadsIdle ==
    /\ lockOwner = 0
    /\ lockDepth = 0
    /\ inside = FALSE
    /\ tpc = [t \in Threads |-> "idle"]
    /\ tkind = [t \in Threads |-> "none"]
    /\ tnew = [t \in Threads |-> 0]
    /\ tres = [t \in Threads |-> 0]

\* ------------------------------------------------------------ file sessions
Sessions == 1..MaxSessions
\* what the target file holds before any session
Original == <<10>>
NoSession == [st |-> "new", lock |-> FALSE, atomic |-> FALSE, held |-> FALSE,
              handle |-> "none", cause |-> "none", log |-> <<>>]
\* the target file and its siblings before any session
TargetIdle == [real |-> Original, shadow |-> [exists |-> FALSE, data |-> <<>>],
               marker |-> FALSE]
\* no file session can be opened: the server offers none
SessionsAbsent ==
    /\ sessions = << >>
    /\ target = TargetIdle
\* every session is Closed and the target file is not locked
SessionsIdle ==
    /\ sessions = [s \in Sessions |-> NoSession]
    /\ target = TargetIdle

\* a websocket has been opened and no request has arrived
ChannelIdle(content) ==
    /\ disk = DiskWith(content)
    /\ chan = "open"
    /\ hpc = "idle"
    /\ req = NoReq
    /\ fpos = 0
    /\ remaining = 0
    /\ fh = "none"
    /\ out = <<>>
    /\ escaped = FALSE
    /\ nrecv = 0
    /\ endedBy = "none"
    /\ received = <<>>

\* the server is up: the handlers have obtained the registry from instance()
Init ==
    /\ KernelInit
    /\ ThreadsIdle
    /\ ChannelIdle(<<>>)
    /\ SessionsAbsent
    /\ inst = 1
    /\ nobj = 1

\* ------------------------------------------------------------ KernelProcess
\* Popen.poll(): a process that has exited is reaped by the first poll
Polled(pr) == IF pr.st = "zombie" THEN [pr EXCEPT !.st = "reaped"] ELSE pr

\* KernelProcess.is_alive
IsAlive(pr) == pr.st = "running"

\* KernelProcess.terminate: Popen.terminate polls, then signals SIGTERM
Terminate(pr) == [Polled(pr) EXCEPT !.term = @ + 1]

\* KernelProcess.kill: SIGKILL cannot be caught, the process runs no further
Kill(pr) ==
    [Polled(pr) EXCEPT !.kill = @ + 1,
                       !.st = IF pr.st = "running" THEN "zombie" ELSE @]

\* KernelProcess.join: Popen.wait returns once the process has exited
CanJoin(pr) == pr.st # "running"
Joined(pr) == [pr EXCEPT !.st = "reaped"]

\* pids the OS may hand out: not held by a process that is running or not
\* yet reaped.  Pids that were never used are interchangeable, the lowest
\* stands for all of them.
HeldPids == {proc[h].pid : h \in {g \in Procs : proc[g].st \in {"running", "zombie"}}}
UsedPids == {proc[h].pid : h \in {g \in Procs : proc[g].st # "unborn"}}
FreePids ==
    LET fresh == Pids \ UsedPids IN
    (UsedPids \ HeldPids) \cup {p \in fresh : \A q \in fresh : p <= q}

Unborn == {h \in Procs : proc[h].st = "unborn"}

\* ------------------------------------------------------------- environment
\* the kernel creates its connection file ...
KernelWriteBegin(h) ==
    /\ proc[h].st = "running"
    /\ proc[h].wrote = 0
    /\ proc' = [proc EXCEPT ![h].wrote = 1]
    /\ files' = [files EXCEPT ![proc[h].pid] = Partial]
    /\ reply' = NoReply
    /\ UNCHANGED <<kernels, startCall, stopCall, phase, tdCur, tdDone, loopBusy>>
    /\ UNCHANGED <<svars, fvars, lvars>>

\* ... and then fills it with its connection info and key
KernelWriteEnd(h) ==
    /\ proc[h].st = "running"
    /\ proc[h].wrote = 1
    /\ proc' = [proc EXCEPT ![h].wrote = 2]
    /\ files' = [files EXCEPT ![proc[h].pid] = h]
    /\ reply' = NoReply
    /\ UNCHANGED <<kernels, startCall, stopCall, phase, tdCur, tdDone, loopBusy>>
    /\ UNCHANGED <<svars, fvars, lvars>>

\* the kernel exits (SIGTERM, crash, own exit); a clean exit removes its file
KernelExit(h, cleanup) ==
    /\ proc[h].st = "running"
    /\ proc' = [proc EXCEPT ![h].st = "zombie"]
    /\ files' = IF cleanup /\ proc[h].wrote = 2
                THEN [files EXCEPT ![proc[h].pid] = NoFile]
                ELSE files
    /\ reply' = NoReply
    /\ UNCHANGED <<kernels, startCall, stopCall, phase, tdCur, tdDone, loopBusy>>
    /\ UNCHANGED <<svars, fvars, lvars>>

\* ------------------------------------------------------------ KernelManager
Serving == phase = "serving" /\ ~loopBusy

\* self.kernels[result['key']] = process
RegistryInsert(reg, k, h) ==
    [x \in DOMAIN reg \cup {k} |-> IF x = k THEN h ELSE reg[x]]

\* self.kernels.pop(session_key), the key being present
RegistryPop(reg, k) == [x \in DOMAIN reg \ {k} |-> reg[x]]

\* variant: the timeout branch raises without killing
OnTimeoutNoKill(pr) == Polled(pr)

\* the timeout branch of the polling loop: kill the process if it is alive
OnTimeout(pr) == IF IsAlive(Polled(pr)) THEN Kill(pr) ELSE Polled(pr)

\* One pass of start_kernel from the test of the while loop to the next
\* await, e being time.time() - start_time; pr is the process record of h.
PollPass(h, pr, e) ==
    LET content == files[pr.pid] IN
    IF content # NoFile
    THEN IF content = Partial
         THEN \* json.load raises on a file that is not yet complete
              /\ proc' = [proc EXCEPT ![h] = pr]
              /\ startCall' = [startCall EXCEPT ![h] = [pc |-> "parsefail", elapsed |-> 0, key |-> 0]]
              /\ kernels' = kernels
         ELSE /\ proc' = [proc EXCEPT ![h] = pr]
              /\ kernels' = RegistryInsert(kernels, content, h)
              /\ startCall' = [startCall EXCEPT ![h] = [pc |-> "ok", elapsed |-> 0, key |-> content]]
    ELSE IF e > TimeoutMs
         THEN /\ proc' = [proc EXCEPT ![h] = OnTimeout(pr)]
              /\ startCall' = [startCall EXCEPT ![h] = [pc |-> "timeout", elapsed |-> 0, key |-> 0]]
              /\ kernels' = kernels
         ELSE \* await asyncio.sleep(0.1)
              /\ proc' = [proc EXCEPT ![h] = pr]
              /\ startCall' = [startCall EXCEPT ![h] = [pc |-> "polling", elapsed |-> e, key |-> 0]]
              /\ kernels' = kernels

\* start_kernel up to its first await: spawn, look up the runtime directory
\* (dirOk: whether `jupyter --runtime-dir` succeeds), first pass of the loop
StartKernel(p, dirOk) ==
    /\ Serving
    /\ Unborn # {}
    /\ p \in FreePids
    /\ LET h == CHOOSE x \in Unborn : \A y \in Unborn : x <= y
           pr == [st |-> "running", pid |-> p, wrote |-> 0, term |-> 0, kill |-> 0]
       IN IF dirOk
          THEN PollPass(h, pr, 0)
          ELSE /\ proc' = [proc EXCEPT ![h] = pr]
               /\ startCall' = [startCall EXCEPT ![h] = [pc |-> "dirfail", elapsed |-> 0, key |-> 0]]
               /\ kernels' = kernels
    /\ reply' = NoReply
    /\ UNCHANGED <<files, stopCall, phase, tdCur, tdDone, loopBusy>>
    /\ UNCHANGED <<svars, fvars, lvars>>

\* start_kernel resumes from asyncio.sleep(0.1), which lasts at least 100 ms
Poll(h, e) ==
    /\ Serving
    /\ startCall[h].pc = "polling"
    /\ e \in Elapsed
    /\ e >= startCall[h].elapsed + PollMs
    /\ PollPass(h, proc[h], e)
    /\ reply' = NoReply
    /\ UNCHANGED <<files, stopCall, phase, tdCur, tdDone, loopBusy>>
    /\ UNCHANGED <<svars, fvars, lvars>>

\* the session keys of requests.  Keys that are not registered are all alike
\* to the registry, the lowest stands for all of them.
RequestKeys ==
    LET absent == Keys \ DOMAIN kernels IN
    DOMAIN kernels \cup {k \in absent : \A j \in absent : k <= j}

\* variant: process.join() called directly in the coroutine
StopJoinInline == "loop"

\* where stop_kernel's process.join runs: loop.run_in_executor(None, ...)
StopJoinSite == "executor"

\* variant: return process.is_alive()
StopResultRaw(pr) == IsAlive(pr)

\* stop_kernel: return not process.is_alive()
StopResult(pr) == ~IsAlive(pr)

\* stop_kernel up to its await: pop (KeyError if absent), terminate, hand
\* process.join to the executor
StopKernel(k) ==
    /\ Serving
    /\ IF k \notin DOMAIN kernels
       THEN /\ reply' = [NoReply EXCEPT !.op = "stop", !.key = k, !.err = "KeyNotFound"]
            /\ UNCHANGED <<kernels, proc, stopCall, loopBusy>>
       ELSE LET h == kernels[k] IN
            /\ kernels' = RegistryPop(kernels, k)
            /\ proc' = [proc EXCEPT ![h] = Terminate(proc[h])]
            /\ stopCall' = [stopCall EXCEPT ![h] = [pc |-> "joining", key |-> k, result |-> FALSE]]
            /\ loopBusy' = (StopJoinSite = "loop")
            /\ reply' = NoReply
    /\ UNCHANGED <<files, startCall, phase, tdCur, tdDone>>
    /\ UNCHANGED <<svars, fvars, lvars>>

\* process.join returns in the thread that runs it
StopJoin(h) ==
    /\ stopCall[h].pc = "joining"
    /\ CanJoin(proc[h])
    /\ proc' = [proc EXCEPT ![h] = Joined(proc[h])]
    /\ stopCall' = [stopCall EXCEPT ![h].pc = "joined"]
    /\ reply' = NoReply
    /\ UNCHANGED <<kernels, files, startCall, phase, tdCur, tdDone, loopBusy>>
    /\ UNCHANGED <<svars, fvars, lvars>>

\* stop_kernel resumes after the await: return not process.is_alive()
StopReturn(h) ==
    /\ phase = "serving"
    /\ stopCall[h].pc = "joined"
    /\ proc' = [proc EXCEPT ![h] = Polled(proc[h])]
    /\ stopCall' = [stopCall EXCEPT ![h].pc = "returned",
                                    ![h].result = StopResult(Polled(proc[h]))]
    /\ loopBusy' = FALSE
    /\ reply' = NoReply
    /\ UNCHANGED <<kernels, files, startCall, phase, tdCur, tdDone>>
    /\ UNCHANGED <<svars, fvars, lvars>>

\* check_kernel_alive
CheckKernelAlive(k) ==
    /\ Serving
    /\ IF k \notin DOMAIN kernels
       THEN /\ reply' = [NoReply EXCEPT !.op = "alive", !.key = k, !.err = "KeyNotFound"]
            /\ proc' = proc
       ELSE LET h == kernels[k] IN
            /\ proc' = [proc EXCEPT ![h] = Polled(proc[h])]
            /\ reply' = [NoReply EXCEPT !.op = "alive", !.key = k,
                                        !.val = IF IsAlive(Polled(proc[h])) THEN 1 ELSE 0]
    /\ UNCHANGED <<kernels, files, startCall, stopCall, phase, tdCur, tdDone, loopBusy>>
    /\ UNCHANGED <<svars, fvars, lvars>>

\* process.pid of the handle registered under k
PidOf(reg, pr, k) == pr[reg[k]].pid

\* variant: self.kernels.get(session_key), no KeyError for an absent key
GetKernelPidLenient(k) ==
    /\ Serving
    /\ reply' = [NoReply EXCEPT !.op = "pid", !.key = k,
                                !.val = IF k \in DOMAIN kernels THEN PidOf(kernels, proc, k) ELSE 0]
    /\ UNCHANGED <<kernels, proc, files, startCall, stopCall, phase, tdCur, tdDone, loopBusy>>
    /\ UNCHANGED <<svars, fvars, lvars>>

\* get_kernel_pid
GetKernelPid(k) ==
    /\ Serving
    /\ IF k \notin DOMAIN kernels
       THEN reply' = [NoReply EXCEPT !.op = "pid", !.key = k, !.err = "KeyNotFound"]
       ELSE reply' = [NoReply EXCEPT !.op = "pid", !.key = k, !.val = PidOf(kernels, proc, k)]
    /\ UNCHANGED <<kernels, proc, files, startCall, stopCall, phase, tdCur, tdDone, loopBusy>>
    /\ UNCHANGED <<svars, fvars, lvars>>

\* variant: list_kernels drops the entries whose process has exited
ListKernelsPruning ==
    /\ Serving
    /\ kernels' = [k \in {j \in DOMAIN kernels : IsAlive(proc[kernels[j]])} |-> kernels[k]]
    /\ reply' = [NoReply EXCEPT !.op = "list", !.keys = DOMAIN kernels']
    /\ UNCHANGED <<proc, files, startCall, stopCall, phase, tdCur, tdDone, loopBusy>>
    /\ UNCHANGED <<svars, fvars, lvars>>

\* list_kernels
ListKernels ==
    /\ Serving
    /\ reply' = [NoReply EXCEPT !.op = "list", !.keys = DOMAIN kernels]
    /\ UNCHANGED <<kernels, proc, files, startCall, stopCall, phase, tdCur, tdDone, loopBusy>>
    /\ UNCHANGED <<svars, fvars, lvars>>

\* ----------------------------------------------------------------- teardown
\* variant: the iteration misses the last handle
TeardownTargetsButOne(reg) ==
    LET all == {reg[k] : k \in DOMAIN reg} IN
    all \ {h \in all : \A g \in all : g <= h}

\* the handles __del__ iterates over: self.kernels.values()
TeardownTargets(reg) == {reg[k] : k \in DOMAIN reg}

\* the interpreter exits: the event loop has stopped, atexit runs __del__
Shutdown ==
    /\ phase = "serving"
    /\ phase' = "teardown"
    /\ reply' = NoReply
    /\ UNCHANGED <<kernels, proc, files, startCall, stopCall, tdCur, tdDone, loopBusy>>
    /\ UNCHANGED <<svars, fvars, lvars>>

\* __del__: process.terminate() for the next handle
TeardownTerminate(h) ==
    /\ phase = "teardown"
    /\ tdCur = 0
    /\ h \in TeardownTargets(kernels) \ tdDone
    /\ proc' = [proc EXCEPT ![h] = Terminate(proc[h])]
    /\ tdCur' = h
    /\ reply' = NoReply
    /\ UNCHANGED <<kernels, files, startCall, stopCall, phase, tdDone, loopBusy>>
    /\ UNCHANGED <<svars, fvars, lvars>>

\* __del__: process.join() returns
TeardownJoin ==
    /\ phase = "teardown"
    /\ tdCur # 0
    /\ CanJoin(proc[tdCur])
    /\ proc' = [proc EXCEPT ![tdCur] = Joined(proc[tdCur])]
    /\ tdDone' = tdDone \cup {tdCur}
    /\ tdCur' = 0
    /\ reply' = NoReply
    /\ UNCHANGED <<kernels, files, startCall, stopCall, phase, loopBusy>>
    /\ UNCHANGED <<svars, fvars, lvars>>

\* __del__ returns and the interpreter exits; the executor's worker threads
\* are joined at interpreter exit, so a pending process.join has returned
TeardownDone ==
    /\ phase = "teardown"
    /\ tdCur = 0
    /\ TeardownTargets(kernels) \subseteq tdDone
    /\ \A h \in Procs : stopCall[h].pc # "joining"
    /\ phase' = "exited"
    /\ reply' = NoReply
    /\ UNCHANGED <<kernels, proc, files, startCall, stopCall, tdCur, tdDone, loopBusy>>
    /\ UNCHANGED <<svars, fvars, lvars>>

Next ==
    \/ \E p \in Pids, dirOk \in BOOLEAN : StartKernel(p, dirOk)
    \/ \E h \in Procs, e \in Readings : Poll(h, e)
    \/ \E k \in RequestKeys : StopKernel(k)
    \/ \E h \in Procs : StopJoin(h)
    \/ \E h \in Procs : StopReturn(h)
    \/ \E k \in RequestKeys : CheckKernelAlive(k)
    \/ \E k \in RequestKeys : GetKernelPid(k)
    \/ ListKernels
    \/ Shutdown
    \/ \E h \in Procs : TeardownTerminate(h)
    \/ TeardownJoin
    \/ TeardownDone
    \/ \E h \in Procs : KernelWriteBegin(h)
    \/ \E h \in Procs : KernelWriteEnd(h)
    \/ \E h \in Procs, cleanup \in BOOLEAN : KernelExit(h, cleanup)

Spec == Init /\ [][Next]_vars

\* One start_kernel call at a time, with the clock at its full resolution
TimedStart(p, dirOk) ==
    /\ \A h \in Procs : startCall[h].pc # "polling"
    /\ StartKernel(p, dirOk)

TimedNext ==
    \/ \E p \in Pids, dirOk \in BOOLEAN : TimedStart(p, dirOk)
    \/ \E h \in Procs, e \in Elapsed : Poll(h, e)
    \/ \E h \in Procs : KernelWriteBegin(h)
    \/ \E h \in Procs : KernelWriteEnd(h)
    \/ \E h \in Procs, cleanup \in BOOLEAN : KernelExit(h, cleanup)

TimedSpec == Init /\ [][TimedNext]_vars

\* ------------------------------------------------- KernelManager singleton
\* Threads run instance() and the constructor one statement at a time.

\* variant: __new__ tests the flag without taking the lock
NewLockIgnored(t) == TRUE

\* `with cls.__rlock` of __new__: the RLock is free or held by this thread
NewLockFree(t) == lockOwner \in {0, t}

\* `with cls.__rlock` of instance()
InstanceLockFree(t) == lockOwner \in {0, t}

\* variant: no second test under the lock
RecheckSkipped(i) == TRUE

\* `if cls._instance is None` of instance(), under the lock
Recheck(i) == i = 0

\* `if cls._instance is None and cls.__inside_instance` of __new__
NewAllowed(i, flag) == i = 0 /\ flag

Acquire(t) ==
    /\ lockOwner' = t
    /\ lockDepth' = lockDepth + 1

Release ==
    /\ lockDepth' = lockDepth - 1
    /\ lockOwner' = IF lockDepth = 1 THEN 0 ELSE lockOwner

Goto(t, label) == tpc' = [tpc EXCEPT ![t] = label]

\* a thread calls KernelManager.instance() or KernelManager()
Call(t, kind) ==
    /\ tpc[t] \in {"idle", "done"}
    /\ tkind' = [tkind EXCEPT ![t] = kind]
    /\ tnew' = [tnew EXCEPT ![t] = 0]
    /\ tres' = [tres EXCEPT ![t] = 0]
    /\ Goto(t, IF kind = "instance" THEN "i_check" ELSE "n_check")
    /\ UNCHANGED <<inst, lockOwner, lockDepth, inside, nobj>>
    /\ UNCHANGED <<kvars, fvars, lvars>>

\* instance(): if cls._instance is not None
InstanceCheck(t) ==
    /\ tpc[t] = "i_check"
    /\ Goto(t, IF inst # 0 THEN "i_ret" ELSE "i_lock")
    /\ UNCHANGED <<inst, lockOwner, lockDepth, inside, nobj, tkind, tnew, tres>>
    /\ UNCHANGED <<kvars, fvars, lvars>>

\* instance(): with cls.__rlock
InstanceLock(t) ==
    /\ tpc[t] = "i_lock"
    /\ InstanceLockFree(t)
    /\ Acquire(t)
    /\ Goto(t, "i_recheck")
    /\ UNCHANGED <<inst, inside, nobj, tkind, tnew, tres>>
    /\ UNCHANGED <<kvars, fvars, lvars>>

\* instance(): if cls._instance is None, under the lock
InstanceRecheck(t) ==
    /\ tpc[t] = "i_recheck"
    /\ Goto(t, IF Recheck(inst) THEN "i_flag" ELSE "i_unlock")
    /\ UNCHANGED <<inst, lockOwner, lockDepth, inside, nobj, tkind, tnew, tres>>
    /\ UNCHANGED <<kvars, fvars, lvars>>

\* instance(): cls.__inside_instance = True, then cls(...) enters __new__
InstanceFlag(t) ==
    /\ tpc[t] = "i_flag"
    /\ inside' = TRUE
    /\ Goto(t, "n_check")
    /\ UNCHANGED <<inst, lockOwner, lockDepth, nobj, tkind, tnew, tres>>
    /\ UNCHANGED <<kvars, fvars, lvars>>

\* __new__: if cls._instance is None
NewCheck(t) ==
    /\ tpc[t] = "n_check"
    /\ Goto(t, IF inst = 0 THEN "n_lock" ELSE "n_raise")
    /\ UNCHANGED <<inst, lockOwner, lockDepth, inside, nobj, tkind, tnew, tres>>
    /\ UNCHANGED <<kvars, fvars, lvars>>

\* __new__: with cls.__rlock
NewLock(t) ==
    /\ tpc[t] = "n_lock"
    /\ NewLockFree(t)
    /\ Acquire(t)
    /\ Goto(t, "n_inner")
    /\ UNCHANGED <<inst, inside, nobj, tkind, tnew, tres>>
    /\ UNCHANGED <<kvars, fvars, lvars>>

\* __new__: the test under the lock; return super().__new__(cls) makes the
\* object and leaves the with block, otherwise the block is left for the raise
NewInner(t) ==
    /\ tpc[t] = "n_inner"
    /\ Release
    /\ IF NewAllowed(inst, inside)
       THEN /\ nobj' = nobj + 1
            /\ tnew' = [tnew EXCEPT ![t] = nobj + 1]
            /\ Goto(t, "init")
       ELSE /\ Goto(t, "n_raise")
            /\ UNCHANGED <<nobj, tnew>>
    /\ UNCHANGED <<inst, inside, tkind, tres>>
    /\ UNCHANGED <<kvars, fvars, lvars>>

\* __new__: raise RuntimeError; inside instance() it reaches the finally
NewRaise(t) ==
    /\ tpc[t] = "n_raise"
    /\ tres' = [tres EXCEPT ![t] = -1]
    /\ Goto(t, IF tkind[t] = "instance" THEN "i_finally" ELSE "done")
    /\ UNCHANGED <<inst, lockOwner, lockDepth, inside, nobj, tkind, tnew>>
    /\ UNCHANGED <<kvars, fvars, lvars>>

\* __init__ of the object __new__ returned; in instance() the assignment
\* cls._instance = cls(...) follows, a direct call has its object
ObjectInit(t) ==
    /\ tpc[t] = "init"
    /\ IF tkind[t] = "instance"
       THEN /\ inst' = tnew[t]
            /\ Goto(t, "i_finally")
            /\ tres' = tres
       ELSE /\ tres' = [tres EXCEPT ![t] = tnew[t]]
            /\ Goto(t, "done")
            /\ inst' = inst
    /\ UNCHANGED <<lockOwner, lockDepth, inside, nobj, tkind, tnew>>
    /\ UNCHANGED <<kvars, fvars, lvars>>

\* instance(): finally: cls.__inside_instance = False
InstanceFinally(t) ==
    /\ tpc[t] = "i_finally"
    /\ inside' = FALSE
    /\ Goto(t, "i_unlock")
    /\ UNCHANGED <<inst, lockOwner, lockDepth, nobj, tkind, tnew, tres>>
    /\ UNCHANGED <<kvars, fvars, lvars>>

\* instance(): the with block is left; an exception goes on to the caller
InstanceUnlock(t) ==
    /\ tpc[t] = "i_unlock"
    /\ Release
    /\ Goto(t, IF tres[t] = -1 THEN "done" ELSE "i_ret")
    /\ UNCHANGED <<inst, inside, nobj, tkind, tnew, tres>>
    /\ UNCHANGED <<kvars, fvars, lvars>>

\* instance(): return cls._instance
InstanceReturn(t) ==
    /\ tpc[t] = "i_ret"
    /\ tres' = [tres EXCEPT ![t] = inst]
    /\ Goto(t, "done")
    /\ UNCHANGED <<inst, lockOwner, lockDepth, inside, nobj, tkind, tnew>>
    /\ UNCHANGED <<kvars, fvars, lvars>>

\* no KernelManager exists yet
SingletonInit ==
    /\ KernelInit
    /\ ThreadsIdle
    /\ ChannelIdle(<<>>)
    /\ SessionsAbsent
    /\ inst = 0
    /\ nobj = 0

SingletonNext ==
    \/ \E t \in Threads, kind \in {"instance", "direct"} : Call(t, kind)
    \/ \E t \in Threads : InstanceCheck(t)
    \/ \E t \in Threads : InstanceLock(t)
    \/ \E t \in Threads : InstanceRecheck(t)
    \/ \E t \in Threads : InstanceFlag(t)
    \/ \E t \in Threads : NewCheck(t)
    \/ \E t \in Threads : NewLock(t)
    \/ \E t \in Threads : NewInner(t)
    \/ \E t \in Threads : NewRaise(t)
    \/ \E t \in Threads : ObjectInit(t)
    \/ \E t \in Threads : InstanceFinally(t)
    \/ \E t \in Threads : InstanceUnlock(t)
    \/ \E t \in Threads : InstanceReturn(t)

SingletonSpec == SingletonInit /\ [][SingletonNext]_vars

\* ------------------------------------------------------------ byte strings
\* s[a:b] of Python for a >= 0
Slice(s, a, b) ==
    IF a >= Min(b, Len(s)) THEN <<>> ELSE SubSeq(s, a + 1, Min(b, Len(s)))

\* f.seek(pos) then f.read(n): what the file holds from pos on, at most n
\* bytes of it, all of it when n is negative
FileRead(data, pos, n) ==
    IF n < 0 THEN Slice(data, pos, Len(data)) ELSE Slice(data, pos, pos + n)

\* bytes.find(sub, start) for start <= 0: the lowest index, not before the
\* start counted from the end, at which sub occurs; -1 if there is none
Find(chunk, sub, start) ==
    LET from == Max(0, Len(chunk) + start)
        hits == {i \in from..(Len(chunk) - Len(sub)) : Slice(chunk, i, i + Len(sub)) = sub}
    IN IF hits = {} THEN -1 ELSE CHOOSE i \in hits : \A j \in hits : i <= j

\* base64.b64encode: three bytes make four characters of six bits, the last
\* group is filled up with "=".  A character is its index in the alphabet,
\* "=" is 64.
B64Encode(b) ==
    LET n == Len(b)
        byte(i) == IF i <= n THEN b[i] ELSE 0
        grp(g) == byte(3 * g - 2) * 65536 + byte(3 * g - 1) * 256 + byte(3 * g)
        sext(g, k) == CASE k = 1 -> grp(g) \div 262144
                        [] k = 2 -> (grp(g) \div 4096) % 64
                        [] k = 3 -> (grp(g) \div 64) % 64
                        [] OTHER -> grp(g) % 64
        ch(i) == LET g == (i + 3) \div 4
                     k == i - 4 * (g - 1)
                 IN IF 3 * (g - 1) + k - 1 > n THEN 64 ELSE sext(g, k)
    IN [i \in 1..(4 * ((n + 2) \div 3)) |-> ch(i)]

\* what b64decode accepts: whole groups, "=" only at the end of the last
B64Valid(c) ==
    /\ Len(c) % 4 = 0
    /\ \A i \in 1..Len(c) : c[i] \in 0..64
    /\ \A i \in 1..Len(c) : c[i] = 64 => /\ i >= Len(c) - 1
                                         /\ c[Len(c)] = 64

\* base64.b64decode of a valid string
B64Decode(c) ==
    LET pads == Cardinality({i \in 1..Len(c) : c[i] = 64})
        sx(i) == IF c[i] = 64 THEN 0 ELSE c[i]
        grp(g) == sx(4 * g - 3) * 262144 + sx(4 * g - 2) * 4096
                    + sx(4 * g - 1) * 64 + sx(4 * g)
        byte(j) == LET g == (j + 2) \div 3
                       k == j - 3 * (g - 1)
                   IN CASE k = 1 -> grp(g) \div 65536
                        [] k = 2 -> (grp(g) \div 256) % 256
                        [] OTHER -> grp(g) % 256
    IN [j \in 1..(3 * (Len(c) \div 4) - pads) |-> byte(j)]

\* ------------------------------------------------- stream channel: messages
DataMsg(chunk) == [type |-> "data", data |-> B64Encode(chunk)]
EofMsg == [type |-> "eof", data |-> <<>>]
ErrorMsg == [type |-> "error", data |-> <<>>]
CompleteMsg == [type |-> "write_complete", data |-> <<>>]

\* variant: only path_obj.exists() is tested
PathExists(p) == disk[p].kind # "missing"

\* path_obj.exists() and path_obj.is_file()
IsFile(p) == disk[p].kind = "file"

\* -------------------------------------------------- stream channel: reading
\* _handle_cat_file: start = max(0, start if start else 0)
CatStart(a) == Max(0, IF a = {} THEN 0 ELSE Val(a))
\* variant: the end is taken as given
CatEndAsGiven(size, b) == IF b = {} THEN size ELSE Val(b)

\* _handle_cat_file: end = min(size, end if end is not None else size)
CatEnd(size, b) == Min(size, IF b = {} THEN size ELSE Val(b))

\* _handle_read_block: offset = max(0, offset)
BlockStart(offset) == Max(0, offset)
\* _handle_read_block: end = size if length is None else min(size, offset + length)
NominalEnd(size, offset, length) ==
    IF length = {} THEN size ELSE Min(size, BlockStart(offset) + Val(length))

\* chunk.find(delimiter, -65536) raises TypeError for a str delimiter
FindRaises(delim) == delim.kind = "str"

\* variant: the search starts where the over-read starts
FindInOverRead(chunk, sub, nominalLen) ==
    LET hits == {i \in Max(0, nominalLen)..(Len(chunk) - Len(sub)) :
                    Slice(chunk, i, i + Len(sub)) = sub}
    IN IF hits = {} THEN -1 ELSE CHOOSE i \in hits : \A j \in hits : i <= j

\* idx = chunk.find(delimiter, -65536)
FindDelimiter(chunk, sub, nominalLen) == Find(chunk, sub, -Margin)

\* _handle_read_block: the end after the delimiter search
BlockEnd(data, offset, length, delim) ==
    LET off == BlockStart(offset)
        end == NominalEnd(Len(data), offset, length)
        chunk == FileRead(data, off, (end - off) + Margin)
        idx == FindDelimiter(chunk, delim.val, end - off)
    IN IF delim.kind = "None" \/ idx = -1 THEN end ELSE off + idx + Len(delim.val)

\* variant: the range is streamed without the test
StreamFileUntested(start, end) ==
    /\ out' = <<>>
    /\ hpc' = "stream"
    /\ fpos' = start
    /\ remaining' = end - start

\* _stream_file up to its loop: the range test, open and seek
StreamFile(start, end) ==
    IF end < start
    THEN /\ out' = <<ErrorMsg>>
         /\ hpc' = "done"
         /\ fpos' = 0
         /\ remaining' = 0
    ELSE /\ out' = <<>>
         /\ hpc' = "stream"
         /\ fpos' = start
         /\ remaining' = end - start

\* the handler has sent one error and returned
ReplyError ==
    /\ out' = <<ErrorMsg>>
    /\ hpc' = "done"
    /\ fpos' = 0
    /\ remaining' = 0

\* on_message dispatching {"method": "cat_file", "args": [p, a, b]}
HandleCatFile(p, a, b) ==
    /\ hpc = "idle"
    /\ chan = "open"
    /\ req' = [method |-> "cat_file", path |-> p, a |-> a, b |-> b, delim |-> NoDelim,
               prior |-> req.prior]
    /\ IF ~IsFile(p)
       THEN ReplyError
       ELSE StreamFile(CatStart(a), CatEnd(Len(disk[p].data), b))
    /\ UNCHANGED <<disk, chan, fh, escaped, nrecv, endedBy, received>>
    /\ UNCHANGED <<kvars, svars, lvars>>

\* on_message dispatching {"method": "read_block", "args": [p, offset, length, delim]};
\* an exception of the handler is caught by on_message, which sends an error
HandleReadBlock(p, offset, length, delim) ==
    /\ hpc = "idle"
    /\ chan = "open"
    /\ req' = [method |-> "read_block", path |-> p, a |-> {offset}, b |-> length,
               delim |-> delim, prior |-> req.prior]
    /\ IF ~IsFile(p) \/ FindRaises(delim)
       THEN ReplyError
       ELSE StreamFile(BlockStart(offset), BlockEnd(disk[p].data, offset, length, delim))
    /\ UNCHANGED <<disk, chan, fh, escaped, nrecv, endedBy, received>>
    /\ UNCHANGED <<kvars, svars, lvars>>

\* variant: the rest of the range goes into one frame
ToReadAll(rem) == rem

\* to_read = min(CHUNK_SIZE, remaining)
ToRead(rem) == Min(CHUNK_SIZE, rem)

\* one pass of the loop of _stream_file: read, send the frame
StreamChunk ==
    /\ hpc = "stream"
    /\ remaining > 0
    /\ LET chunk == FileRead(disk[req.path].data, fpos, ToRead(remaining)) IN
       IF chunk = <<>>
       THEN /\ out' = Append(out, EofMsg)
            /\ hpc' = "done"
            /\ UNCHANGED <<fpos, remaining>>
       ELSE /\ out' = Append(out, DataMsg(chunk))
            /\ fpos' = fpos + Len(chunk)
            /\ remaining' = remaining - Len(chunk)
            /\ hpc' = hpc
    /\ UNCHANGED <<disk, chan, req, fh, escaped, nrecv, endedBy, received>>
    /\ UNCHANGED <<kvars, svars, lvars>>

\* the loop is over: _send_stream_eof
StreamEof ==
    /\ hpc = "stream"
    /\ ~(remaining > 0)
    /\ out' = Append(out, EofMsg)
    /\ hpc' = "done"
    /\ UNCHANGED <<disk, chan, req, fpos, remaining, fh, escaped, nrecv, endedBy, received>>
    /\ UNCHANGED <<kvars, svars, lvars>>

\* on_message returns: the channel waits for the next message
OnMessageReturn ==
    /\ hpc = "done"
    /\ hpc' = "idle"
    /\ req' = NoReq
    /\ out' = <<>>
    /\ fpos' = 0
    /\ remaining' = 0
    /\ fh' = "none"
    /\ nrecv' = 0
    /\ endedBy' = "none"
    /\ received' = <<>>
    /\ UNCHANGED <<disk, chan, escaped>>
    /\ UNCHANGED <<kvars, svars, lvars>>

ReadInit ==
    /\ KernelInit
    /\ ThreadsIdle
    /\ inst = 1
    /\ nobj = 1
    /\ \E content \in Contents : ChannelIdle(content)
    /\ SessionsAbsent

ReadNext ==
    \/ \E p \in Paths, a, b \in Opt(ArgInts) : HandleCatFile(p, a, b)
    \/ \E p \in Paths, offset \in ArgInts, length \in Opt(ArgInts), delim \in Delims :
          HandleReadBlock(p, offset, length, delim)
    \/ StreamChunk
    \/ StreamEof
    \/ OnMessageReturn

ReadSpec == ReadInit /\ [][ReadNext]_vars

\* -------------------------------------------------- stream channel: writing
\* the "data" field of an inbound data message: the encoding of one byte, or
\* a string that is not base64 (one character more than a whole group)
Payloads == {B64Encode(<<b>>) : b \in ByteVals} \cup {<<2>>}

\* what read_message hands to the write loop:
\*   drop       None, the peer has closed the connection
\*   raise      read_message raises
\*   malformed  bytes that orjson.loads rejects
\*   falsy      a JSON value that is false in Python: {}, [], 0, "", null
\*   nonobject  any other JSON value that is not an object, e.g. [1]
\*   data, eof  {"type": "data", "data": ...}, {"type": "eof"}
\*   other      an object with another "type"
\*   method     a request, e.g. {"method": "cat_file", "args": [...]}
PlainKinds == {"drop", "raise", "malformed", "falsy", "nonobject", "eof", "other", "method"}
Inbound ==
    {[kind |-> k, data |-> <<>>] : k \in PlainKinds} \cup
    {[kind |-> "data", data |-> d] : d \in Payloads}

\* how the loop goes on after message m: "none" is the next pass, else why
\* it is left
LoopExit(m) ==
    CASE m.kind = "drop" -> "drop"
      [] m.kind = "eof" -> "eof"
      [] m.kind \in {"other", "method"} -> "violation"
      [] m.kind \in {"raise", "nonobject"} -> "exception"
      [] m.kind = "data" /\ ~B64Valid(m.data) -> "exception"
      [] OTHER -> "none"

\* variant: _decode_json fails silently
SendsErrorOnExit(m) == LoopExit(m) \in {"violation", "exception"}

\* the passes that send an error: _decode_json, the else branch, the except clause
SendsError(m) ==
    \/ m.kind = "malformed"
    \/ LoopExit(m) \in {"violation", "exception"}

\* variant: the handle is closed on the eof path only
CloseOnEofOnly(ended) == IF ended = "eof" THEN "closed" ELSE "open"

\* finally: f.close()
HandleAfterLoop(ended) == "closed"

\* variant: the file is opened for appending
OpenAppending(old) == old

\* path_obj.open("wb"): what the file holds once it is open
OpenTruncating(old) == <<>>

\* on_message dispatching {"method": "write_file", "args": [p]}: open("wb")
\* creates or truncates the file and raises on a directory, which on_message
\* answers with an error
HandleWriteFile(p) ==
    /\ hpc = "idle"
    /\ chan = "open"
    /\ req' = [method |-> "write_file", path |-> p, a |-> {}, b |-> {}, delim |-> NoDelim,
               prior |-> req.prior]
    /\ IF disk[p].kind = "dir"
       THEN /\ ReplyError
            /\ UNCHANGED <<disk, fh>>
       ELSE /\ disk' = [disk EXCEPT ![p] = [kind |-> "file",
                                             data |-> OpenTruncating(disk[p].data)]]
            /\ fh' = "open"
            /\ hpc' = "recv"
            /\ out' = <<>>
            /\ UNCHANGED <<fpos, remaining>>
    /\ UNCHANGED <<chan, escaped, nrecv, endedBy, received>>
    /\ UNCHANGED <<kvars, svars, lvars>>

\* one pass of the loop of _handle_write_file and, when the pass leaves the
\* loop, the rest of the handler: f.close() and the write_complete message.
\* write_message raises on a closed connection; that exception leaves
\* _handle_write_file and on_message, whose own _send_error raises again.
WriteLoop(m) ==
    /\ hpc = "recv"
    /\ nrecv < MaxMsgs \/ LoopExit(m) # "none"
    /\ nrecv' = IF m.kind = "drop" THEN nrecv ELSE nrecv + 1
    /\ chan' = IF m.kind = "drop" THEN "closed" ELSE chan
    /\ disk' = IF m.kind = "data" /\ B64Valid(m.data)
               THEN [disk EXCEPT ![req.path].data = @ \o B64Decode(m.data)]
               ELSE disk
    /\ endedBy' = LoopExit(m)
    /\ received' = IF m.kind = "data" THEN Append(received, m.data) ELSE received
    /\ LET sent == IF SendsError(m) THEN Append(out, ErrorMsg) ELSE out IN
       IF LoopExit(m) = "none"
       THEN /\ out' = sent
            /\ UNCHANGED <<hpc, fh, escaped>>
       ELSE /\ fh' = HandleAfterLoop(LoopExit(m))
            /\ hpc' = "done"
            /\ IF chan' = "open"
               THEN /\ out' = Append(sent, CompleteMsg)
                    /\ escaped' = escaped
               ELSE /\ out' = sent
                    /\ escaped' = TRUE
    /\ UNCHANGED <<req, fpos, remaining>>
    /\ UNCHANGED <<kvars, svars, lvars>>

WriteInit ==
    /\ KernelInit
    /\ ThreadsIdle
    /\ inst = 1
    /\ nobj = 1
    /\ \E content \in {<<>>, <<255>>} : ChannelIdle(content)
    /\ SessionsAbsent

WriteNext ==
    \/ \E p \in Paths : HandleWriteFile(p)
    \/ \E m \in Inbound : WriteLoop(m)
    \/ OnMessageReturn

WriteSpec == WriteInit /\ [][WriteNext]_vars

\* ------------------------------------------------ stream channel: dispatcher
\* what on_message can be handed besides the three requests:
\*   malformed  bytes that orjson.loads rejects
\*   falsy      a JSON value that is false in Python: {}, [], 0, "", null
\*   nonobject  any other JSON value that is not an object, e.g. [1]
\*   nomethod   an object without "method", or with a false one
\*   unknown    an object whose method has no _handle_ function
\*   badargs    a request whose handler raises, e.g. {"method": "cat_file"}
\*              (no path: TypeError)
Shapes == {"malformed", "falsy", "nonobject", "nomethod", "unknown", "badargs"}

\* variant: the decode error is not caught
EscapesUndecodable(shape) == shape \in {"malformed", "nonobject"}

\* msg.get on a value that is not an object raises AttributeError before the
\* try statement of on_message
Escapes(shape) == shape = "nonobject"

\* variant: an unknown method is ignored
RepliesKnownOnly(shape) ==
    IF shape \in {"malformed", "nomethod", "badargs"} THEN <<ErrorMsg>> ELSE <<>>

\* the messages on_message sends for a message of the shape
Replies(shape) ==
    IF shape \in {"malformed", "nomethod", "unknown", "badargs"} THEN <<ErrorMsg>> ELSE <<>>

\* on_message for a message that is none of the three requests; an
\* exception that leaves it ends the transport's service of the connection
OnMessage(shape) ==
    /\ hpc = "idle"
    /\ chan = "open"
    /\ req' = [NoReq EXCEPT !.method = shape, !.prior = req.prior]
    /\ hpc' = "done"
    /\ IF Escapes(shape)
       THEN /\ out' = <<>>
            /\ escaped' = TRUE
            /\ chan' = "closed"
       ELSE /\ out' = Replies(shape)
            /\ UNCHANGED <<escaped, chan>>
    /\ UNCHANGED <<disk, fpos, remaining, fh, nrecv, endedBy, received>>
    /\ UNCHANGED <<kvars, svars, lvars>>

\* on_message returns, remembering what it has just served
DispatchReturn ==
    /\ hpc = "done"
    /\ hpc' = "idle"
    /\ req' = [NoReq EXCEPT !.prior = req.method]
    /\ out' = <<>>
    /\ fpos' = 0
    /\ remaining' = 0
    /\ fh' = "none"
    /\ nrecv' = 0
    /\ endedBy' = "none"
    /\ received' = <<>>
    /\ UNCHANGED <<disk, chan, escaped>>
    /\ UNCHANGED <<kvars, svars, lvars>>

DispatchInit ==
    /\ KernelInit
    /\ ThreadsIdle
    /\ inst = 1
    /\ nobj = 1
    /\ \E content \in {<<>>, <<255, 10, 255>>} : ChannelIdle(content)
    /\ SessionsAbsent

DispatchNext ==
    \/ \E shape \in Shapes : OnMessage(shape)
    \/ \E p \in Paths, a, b \in Opt(ArgInts) : HandleCatFile(p, a, b)
    \/ StreamChunk
    \/ StreamEof
    \/ DispatchReturn

DispatchSpec == DispatchInit /\ [][DispatchNext]_vars

\* ------------------------------------------------- FileLock and FileSession
\* Sessions may live in different server processes, so the local mutex of
\* acquire orders nothing between them: any two sessions interleave freely.

\* variant: the marker is created whether or not it exists
CreateAlways(marker) == TRUE

\* FileLock.acquire: the exclusive create succeeds iff no marker is there
CreateExclusive(marker) == ~marker

\* FileSession.open after the lock step: the handle is opened, against the
\* shadow path in atomic mode, and the file it opens starts empty
OpenFile(tg, atomic) ==
    IF atomic
    THEN [tg EXCEPT !.shadow = [exists |-> TRUE, data |-> <<>>]]
    ELSE [tg EXCEPT !.real = <<>>]

\* FileSession.open(path, mode, lock, atomic)
SessionOpen(s, lock, atomic) ==
    /\ sessions[s].st = "new"
    /\ IF lock
       THEN /\ sessions' = [sessions EXCEPT ![s] =
                    [NoSession EXCEPT !.st = "check", !.lock = TRUE, !.atomic = atomic]]
            /\ target' = target
       ELSE /\ sessions' = [sessions EXCEPT ![s] =
                    [NoSession EXCEPT !.st = "open", !.atomic = atomic, !.handle = "open"]]
            /\ target' = OpenFile(target, atomic)
    /\ UNCHANGED <<kvars, svars, fvars>>

\* FileLock.acquire: a poll that observes the marker absent
AcquireCheck(s) ==
    /\ sessions[s].st = "check"
    /\ ~target.marker
    /\ sessions' = [sessions EXCEPT ![s].st = "create"]
    /\ UNCHANGED target
    /\ UNCHANGED <<kvars, svars, fvars>>

\* FileLock.acquire: the create after the check; when another actor has made
\* the marker in between, acquire starts over against the same deadline
AcquireCreate(s) ==
    /\ sessions[s].st = "create"
    /\ IF CreateExclusive(target.marker)
       THEN /\ sessions' = [sessions EXCEPT ![s].st = "open", ![s].held = TRUE,
                                            ![s].handle = "open"]
            /\ target' = OpenFile([target EXCEPT !.marker = TRUE], sessions[s].atomic)
       ELSE /\ sessions' = [sessions EXCEPT ![s].st = "check"]
            /\ target' = target
    /\ UNCHANGED <<kvars, svars, fvars>>

\* FileLock.acquire returns false: the deadline has passed while the marker
\* was there.  open closes the channel; the file is never opened.
AcquireTimeout(s) ==
    /\ sessions[s].st = "check"
    /\ target.marker
    /\ sessions' = [sessions EXCEPT ![s] = NoSession]
    /\ UNCHANGED target
    /\ UNCHANGED <<kvars, svars, fvars>>

\* write(bytes) on the open handle
SessionWrite(s) ==
    /\ sessions[s].st = "open"
    /\ IF sessions[s].atomic
       THEN /\ Len(target.shadow.data) < MaxWrites
            /\ target' = [target EXCEPT !.shadow.data = Append(@, 255)]
       ELSE /\ Len(target.real) < MaxWrites
            /\ target' = [target EXCEPT !.real = Append(@, 255)]
    /\ UNCHANGED sessions
    /\ UNCHANGED <<kvars, svars, fvars>>

\* FileSession.close() is entered: cause is "close" for the explicit close
\* intent and "drop" for an abrupt disconnect
SessionClose(s, cause) ==
    /\ sessions[s].st = "open"
    /\ sessions' = [sessions EXCEPT ![s].st = "teardown", ![s].cause = cause]
    /\ UNCHANGED target
    /\ UNCHANGED <<kvars, svars, fvars>>

\* variant: the steps of close() in the order release, handle, commit
NextStepReleaseFirst(ss) ==
    CASE ss.held -> "release"
      [] ss.handle = "open" -> "handle"
      [] ss.atomic /\ ss.log = <<"handle">> -> "commit"
      [] OTHER -> "end"

\* close(): closes the handle; if atomic, commits; if locked, releases
NextStep(ss) ==
    CASE ss.handle = "open" -> "handle"
      [] ss.atomic /\ ss.log = <<"handle">> -> "commit"
      [] ss.held -> "release"
      [] OTHER -> "end"

\* close(): the handle is closed
TeardownHandle(s) ==
    /\ sessions[s].st = "teardown"
    /\ NextStep(sessions[s]) = "handle"
    /\ sessions' = [sessions EXCEPT ![s].handle = "closed",
                                    ![s].log = Append(@, "handle")]
    /\ UNCHANGED target
    /\ UNCHANGED <<kvars, svars, fvars>>

\* close(): the shadow path replaces the real path
TeardownCommit(s) ==
    /\ sessions[s].st = "teardown"
    /\ NextStep(sessions[s]) = "commit"
    /\ sessions' = [sessions EXCEPT ![s].log = Append(@, "commit")]
    /\ target' = IF target.shadow.exists
                 THEN [target EXCEPT !.real = target.shadow.data,
                                     !.shadow = [exists |-> FALSE, data |-> <<>>]]
                 ELSE target
    /\ UNCHANGED <<kvars, svars, fvars>>

\* close(): FileLock.release removes the marker
TeardownRelease(s) ==
    /\ sessions[s].st = "teardown"
    /\ NextStep(sessions[s]) = "release"
    /\ sessions' = [sessions EXCEPT ![s].held = FALSE, ![s].log = Append(@, "release")]
    /\ target' = [target EXCEPT !.marker = FALSE]
    /\ UNCHANGED <<kvars, svars, fvars>>

\* close() has returned: the session is destroyed
SessionEnd(s) ==
    /\ sessions[s].st = "teardown"
    /\ NextStep(sessions[s]) = "end"
    /\ sessions' = [sessions EXCEPT ![s] = NoSession]
    /\ UNCHANGED target
    /\ UNCHANGED <<kvars, svars, fvars>>

SessionNext ==
    \E s \in Sessions :
        \/ \E lock, atomic \in BOOLEAN : SessionOpen(s, lock, atomic)
        \/ AcquireCheck(s)
        \/ AcquireCreate(s)
        \/ AcquireTimeout(s)
        \/ SessionWrite(s)
        \/ \E cause \in {"close", "drop"} : SessionClose(s, cause)
        \/ TeardownHandle(s)
        \/ TeardownCommit(s)
        \/ TeardownRelease(s)
        \/ SessionEnd(s)

\* the file-session endpoint is up and no session is open
SessionInit ==
    /\ KernelInit
    /\ ThreadsIdle
    /\ ChannelIdle(<<>>)
    /\ SessionsIdle
    /\ inst = 1
    /\ nobj = 1

SessionSpec == SessionInit /\ [][SessionNext]_vars

\* ------------------------------------------------------------------ claims
Registered(reg) == {reg[k] : k \in DOMAIN reg}

\* C1: after server shutdown no kernel process spawned by start_kernel is
\* still alive, whatever start_kernel and stop_kernel calls came before,
\* those still polling or failed included.
C1_NoOrphanAfterShutdown ==
    phase = "exited" => \A h \in Procs : ~IsAlive(proc[h])

\* C2: a successful start_kernel adds exactly one entry to the registry,
\* keyed by the key of the artifact written by the process the call spawned
\* and mapped to that process's handle; get_kernel_pid on that key gives the
\* pid of that process.
C2_StartRegistersOwnKey ==
    [][\A h \in Procs :
        (startCall[h].pc # "ok" /\ startCall'[h].pc = "ok") =>
            /\ Cardinality(DOMAIN kernels') = Cardinality(DOMAIN kernels) + 1
            /\ startCall'[h].key = h
            /\ startCall'[h].key \in DOMAIN kernels'
            /\ kernels'[startCall'[h].key] = h
            /\ PidOf(kernels', proc', startCall'[h].key) = proc'[h].pid]_vars

C4_StoppedKeyNeverListed ==
    [][ListKernels =>
        \A h \in Procs : stopCall[h].pc # "none" => stopCall[h].key \notin reply'.keys]_vars

\* C5: when teardown has completed, every handle in the registry was sent
\* terminate, was joined, and its process has exited.
C5_TeardownJoinsAll ==
    phase = "exited" =>
        \A h \in Registered(kernels) :
            /\ proc[h].term >= 1
            /\ h \in tdDone
            /\ proc[h].st = "reaped"

C5_Witness == phase = "exited" /\ Cardinality(Registered(kernels)) >= 2

\* C6: whatever threads call instance(), one KernelManager object at most is
\* ever constructed, and every instance() call that has returned has returned
\* that object, which is the one _instance holds.
C6_OneInstance ==
    /\ nobj <= 1
    /\ \A t \in Threads :
         (tkind[t] = "instance" /\ tpc[t] = "done") =>
            /\ nobj = 1
            /\ inst = 1
            /\ tres[t] = inst

C6_Witness ==
    \E t, u \in Threads :
        /\ t # u
        /\ tkind[t] = "instance" /\ tpc[t] = "done" /\ tres[t] = 1
        /\ tkind[u] = "instance" /\ tpc[u] = "i_recheck"

\* C7: a direct constructor call never gets an object and ends with
\* RuntimeError, before the singleton exists, after it exists, and while
\* another thread is constructing it inside instance().
C7_DirectRejected ==
    \A t \in Threads :
        tkind[t] = "direct" =>
            /\ tnew[t] = 0
            /\ tpc[t] # "init"
            /\ tpc[t] = "done" => tres[t] = -1

C7_Witness ==
    \E t \in Threads :
        /\ tkind[t] = "direct" /\ tpc[t] = "done" /\ tres[t] = -1
        /\ inside

\* C8: stop_kernel, check_kernel_alive and get_kernel_pid on a key that is
\* not registered fail with KeyNotFound, signal no process and leave the
\* registry as it was.
C8_AbsentKeyFails ==
    [][\A k \in Keys :
        (k \notin DOMAIN kernels
           /\ (StopKernel(k) \/ CheckKernelAlive(k) \/ GetKernelPid(k))) =>
            /\ reply'.err = "KeyNotFound"
            /\ reply'.key = k
            /\ kernels' = kernels
            /\ proc' = proc
            /\ stopCall' = stopCall]_vars

C8_Witness ==
    /\ reply.op = "stop"
    /\ reply.err = "KeyNotFound"
    /\ \E h \in Registered(kernels) : IsAlive(proc[h])

\* C9: stop_kernel on a registered key removes the entry and sends terminate
\* once; while the call waits nothing more is sent to the process; it returns
\* only when the process has exited, never having sent kill, and returns true
\* exactly when the process is not alive.
C9_StopTerminatesOnce ==
    [][\A h \in Procs :
        /\ (stopCall[h].pc = "none" /\ stopCall'[h].pc # "none") =>
                /\ stopCall'[h].key \in DOMAIN kernels
                /\ kernels[stopCall'[h].key] = h
                /\ stopCall'[h].key \notin DOMAIN kernels'
                /\ h \notin Registered(kernels')
                /\ proc[h].term = 0
                /\ proc'[h].term = 1
                /\ proc'[h].kill = 0
        /\ stopCall[h].pc # "none" =>
                /\ proc'[h].term = proc[h].term
                /\ proc'[h].kill = proc[h].kill
        /\ (stopCall[h].pc # "returned" /\ stopCall'[h].pc = "returned") =>
                /\ stopCall'[h].result <=> ~IsAlive(proc'[h])
                /\ ~IsAlive(proc'[h])
                /\ proc'[h].term = 1
                /\ proc'[h].kill = 0]_vars

C9_Witness ==
    \E h \in Procs : stopCall[h].pc = "returned" /\ stopCall[h].result

\* C10: while a start_kernel call polls or a stop_kernel call waits for its
\* process, every other registry operation can be run, and the calls in
\* flight can go on, without that call finishing first.
C10_OthersNotBlocked ==
    (/\ phase = "serving"
     /\ \E h \in Procs : startCall[h].pc = "polling" \/ stopCall[h].pc = "joining") =>
        /\ ENABLED ListKernels
        /\ \A k \in Keys :
             /\ ENABLED CheckKernelAlive(k)
             /\ ENABLED GetKernelPid(k)
             /\ ENABLED StopKernel(k)
        /\ Unborn # {} => ENABLED (\E p \in Pids, dirOk \in BOOLEAN : StartKernel(p, dirOk))
        /\ \A h \in Procs :
             /\ startCall[h].pc = "polling" => ENABLED (\E e \in Readings : Poll(h, e))
             /\ stopCall[h].pc = "joined" => ENABLED StopReturn(h)

C10_Witness ==
    /\ phase = "serving"
    /\ \E h, g \in Procs :
         /\ startCall[h].pc = "polling"
         /\ stopCall[g].pc = "joining"
         /\ IsAlive(proc[g])

\* C11: a step of check_kernel_alive, get_kernel_pid or list_kernels, for any
\* key and whether it succeeds or fails with KeyNotFound, leaves the registry
\* entries as they were and sends neither terminate nor kill to any process.
C11_LookupsArePure ==
    [][((\E k \in Keys : CheckKernelAlive(k) \/ GetKernelPid(k)) \/ ListKernels) =>
          /\ kernels' = kernels
          /\ \A h \in Procs : /\ proc'[h].term = proc[h].term
                               /\ proc'[h].kill = proc[h].kill]_vars

\* a listing answered while a registered process has already exited
C11_Witness ==
    /\ reply.op = "list"
    /\ \E k \in DOMAIN kernels : ~IsAlive(proc[kernels[k]])

\* the messages of a type among those sent for the request
Sent(type) == {i \in 1..Len(out) : out[i].type = type}

\* C12: the write_complete confirmation of a write_file transfer is sent
\* only when the receive loop ended by an eof message, never when it ended
\* by a channel drop, a message of another type or an exception.
C12_CompleteOnlyAfterEof ==
    (req.method = "write_file" /\ Sent("write_complete") # {}) => endedBy = "eof"

\* C13: whenever the receive loop of write_file has ended, by eof, a channel
\* drop, a protocol violation or an exception, the handle opened for the
\* transfer is closed by the time the operation returns; it is open only
\* while the loop runs.
C13_HandleClosedOnExit ==
    /\ endedBy # "none" => fh = "closed"
    /\ fh = "open" => hpc = "recv"

\* the loop was left by an exception and the operation has returned
C13_Witness ==
    /\ endedBy = "exception"
    /\ hpc = "done"
    /\ fh = "closed"

\* inbound messages that decode and whose type is neither data nor eof
OtherTyped == {m \in Inbound : m.kind \in {"falsy", "nonobject", "other", "method"}}

\* C14: in the receive loop of write_file a well-formed message whose type
\* is neither data nor eof, a new method request included, is a protocol
\* violation: an error is sent, the loop stops, and the transfer takes and
\* appends nothing after it.
C14_OtherTypeEndsTransfer ==
    [][\A m \in OtherTyped : WriteLoop(m) =>
          /\ Len(out') > Len(out)
          /\ out'[Len(out) + 1] = ErrorMsg
          /\ hpc' = "done"
          /\ fh' = "closed"
          /\ disk' = disk]_vars

\* the bytes a receiver gets from the data frames of msgs, in order
RECURSIVE Decoded(_)
Decoded(msgs) ==
    IF msgs = <<>> THEN <<>>
    ELSE (IF Head(msgs).type = "data" THEN B64Decode(Head(msgs).data) ELSE <<>>)
            \o Decoded(Tail(msgs))

\* a cat_file request on a regular file has been answered
CatFileDone == hpc = "done" /\ req.method = "cat_file" /\ IsFile(req.path)

\* C15: cat_file on an existing regular file with a valid range [start, end)
\* sends ceil((end - start) / CHUNK_SIZE) data frames, each of at most
\* CHUNK_SIZE bytes and all but the last of exactly CHUNK_SIZE, then exactly
\* one eof frame as the last message; the decoded payloads, in order, are the
\* bytes [start, end) of the file.
C15_CatFileFrames ==
    LET data == disk[req.path].data
        start == CatStart(req.a)
        end == CatEnd(Len(data), req.b)
        n == ((end - start) + (CHUNK_SIZE - 1)) \div CHUNK_SIZE
    IN (CatFileDone /\ start <= end) =>
          /\ Len(out) = n + 1
          /\ out[n + 1] = EofMsg
          /\ \A i \in 1..n :
               /\ out[i].type = "data"
               /\ B64Valid(out[i].data)
               /\ Len(B64Decode(out[i].data)) <= CHUNK_SIZE
               /\ i < n => Len(B64Decode(out[i].data)) = CHUNK_SIZE
          /\ Decoded(out) = Slice(data, start, end)

\* a range that takes a full frame and a shorter last one
C15_Witness ==
    /\ CatFileDone
    /\ Len(out) = 3
    /\ Len(Decoded(out)) = CHUNK_SIZE + 1
    /\ \E i \in 1..Len(Decoded(out)) : Decoded(out)[i] = 255

\* C16: whatever start and end cat_file is given (absent, zero, negative,
\* beyond the size), the bytes streamed are those of
\* [max(0, start), min(size, end)), an absent start being 0 and an absent end
\* the size, and no read reaches outside the file.
C16_CatFileClamps ==
    LET data == disk[req.path].data
        lo == IF req.a = {} THEN 0 ELSE Max(0, Val(req.a))
        hi == IF req.b = {} THEN Len(data) ELSE Min(Len(data), Val(req.b))
    IN /\ CatFileDone => Decoded(out) = Slice(data, lo, hi)
       /\ (hpc = "stream" /\ req.method = "cat_file") =>
             /\ fpos >= lo
             /\ fpos + remaining = hi
             /\ hi <= Len(data)

\* a request from before the file to past its end has streamed all of it
C16_Witness ==
    /\ CatFileDone
    /\ req.a # {} /\ Val(req.a) < 0
    /\ req.b # {} /\ Val(req.b) > Len(disk[req.path].data)
    /\ Decoded(out) = disk[req.path].data
    /\ Len(Decoded(out)) > CHUNK_SIZE

\* a read_block request on a regular file has been answered
ReadBlockDone == hpc = "done" /\ req.method = "read_block" /\ IsFile(req.path)

\* where the delimiter d occurs in the Margin bytes after position from
InMargin(data, d, from) ==
    {i \in from..(from + Margin - Len(d)) : i >= 0 /\ Slice(data, i, i + Len(d)) = d}

\* C17: read_block with a delimiter that occurs in the 64 KiB margin after
\* the nominal end min(size, offset + length) streams from offset to just
\* past the last occurrence in that margin: the range ends at a delimiter
\* boundary at or after the nominal end.
C17_ExtendsToLastDelimiter ==
    LET data == disk[req.path].data
        d == req.delim.val
        off == Max(0, Val(req.a))
        nominal == IF req.b = {} THEN Len(data) ELSE Min(Len(data), off + Val(req.b))
        hits == InMargin(data, d, nominal)
        last == CHOOSE i \in hits : \A j \in hits : j <= i
    IN (ReadBlockDone /\ req.delim.kind # "None" /\ hits # {}) =>
          /\ Decoded(out) = Slice(data, off, last + Len(d))
          /\ Sent("eof") # {}

\* C18: read_block with a delimiter that does not occur in the 64 KiB margin
\* after the nominal end streams exactly the nominal range
\* [offset, min(size, offset + length)), as it does when no delimiter is given.
C18_NoDelimiterKeepsNominal ==
    LET data == disk[req.path].data
        off == Max(0, Val(req.a))
        nominal == IF req.b = {} THEN Len(data) ELSE Min(Len(data), off + Val(req.b))
    IN (/\ ReadBlockDone
        /\ req.delim.kind # "None"
        /\ InMargin(data, req.delim.val, nominal) = {}
        /\ off <= nominal) =>
          /\ Decoded(out) = Slice(data, off, nominal)
          /\ Sent("eof") # {}
          /\ Sent("error") = {}

\* C19: cat_file and read_block on a path that does not exist or is not a
\* regular file are answered with exactly one error message, without any
\* data frame or eof frame.
C19_BadPathOneError ==
    (/\ hpc = "done"
     /\ req.method \in {"cat_file", "read_block"}
     /\ disk[req.path].kind # "file") => out = <<ErrorMsg>>

\* a read_block request on a directory has been answered
C19_Witness ==
    /\ hpc = "done"
    /\ req.method = "read_block"
    /\ disk[req.path].kind = "dir"
    /\ out = <<ErrorMsg>>

\* the request answered last was given a range whose end, as the handler
\* computes it, lies before its start
ReversedRange ==
    LET data == disk[req.path].data IN
    /\ hpc = "done"
    /\ IsFile(req.path)
    /\ \/ /\ req.method = "cat_file"
          /\ CatEnd(Len(data), req.b) < CatStart(req.a)
       \/ /\ req.method = "read_block"
          /\ ~FindRaises(req.delim)
          /\ BlockEnd(data, Val(req.a), req.b, req.delim) < BlockStart(Val(req.a))

\* C20: when the effective end of a cat_file or read_block range is smaller
\* than its effective start, the reply is a single error message, with no
\* data frame and no eof frame, and no exception leaves on_message.
C20_ReversedRangeOneError ==
    ReversedRange => (out = <<ErrorMsg>> /\ ~escaped)

\* a cat_file with a negative end, and a read_block that starts past the end
\* of the file, have been answered
C20_Witness ==
    /\ ReversedRange
    /\ out = <<ErrorMsg>>
    /\ \/ req.method = "cat_file" /\ req.b # {} /\ Val(req.b) < 0
       \/ req.method = "read_block" /\ Val(req.a) > Len(disk[req.path].data)

\* a cat_file request on a regular file with a valid range has been answered
\* with the bytes of the range and a closing eof, and nothing else
CatFileServed ==
    LET data == disk[req.path].data
        start == CatStart(req.a)
        end == CatEnd(Len(data), req.b)
    IN /\ Decoded(out) = Slice(data, start, end)
       /\ Sent("eof") = {Len(out)}
       /\ Sent("error") = {}

\* the request answered last is a cat_file on a regular file with a valid range
ValidCatFile ==
    /\ CatFileDone
    /\ CatStart(req.a) <= CatEnd(Len(disk[req.path].data), req.b)

\* C21: a malformed (undecodable) message on the stream channel is answered
\* with exactly one error message and the channel stays usable: the next
\* well-formed request on it is dispatched and answered as usual.
C21_MalformedOneError ==
    /\ (hpc = "done" /\ req.method = "malformed") =>
          (out = <<ErrorMsg>> /\ chan = "open" /\ ~escaped)
    /\ (hpc = "idle" /\ req.prior = "malformed") =>
          \A p \in Paths : ENABLED HandleCatFile(p, {}, {})
    /\ (ValidCatFile /\ req.prior = "malformed") => CatFileServed

\* a file has been streamed on a channel right after a malformed message
C21_Witness ==
    /\ ValidCatFile
    /\ req.prior = "malformed"
    /\ CatFileServed
    /\ Len(Decoded(out)) > CHUNK_SIZE

C23_UnknownMethodRejected ==
    /\ (hpc = "done" /\ req.method = "unknown") =>
          /\ out = <<ErrorMsg>>
          /\ chan = "open" /\ ~escaped
          /\ fh = "none" /\ fpos = 0 /\ remaining = 0
    /\ (hpc = "idle" /\ req.prior = "unknown") =>
          \A p \in Paths : ENABLED HandleCatFile(p, {}, {})
    /\ (ValidCatFile /\ req.prior = "unknown") => CatFileServed

\* a file has been streamed on a channel right after an unknown method
C23_Witness ==
    /\ ValidCatFile
    /\ req.prior = "unknown"
    /\ CatFileServed
    /\ Decoded(out) = disk[req.path].data
    /\ Decoded(out) # <<>>

\* C24: for an atomic-mode FileSession whose connection is dropped after
\* some writes and before an explicit close, the file at the target path
\* stays byte for byte what it was: the teardown of a dropped session never
\* commits the shadow file over it.
C24_DropKeepsOriginal ==
    [][\A s \in Sessions :
          (/\ sessions[s].atomic
           /\ sessions[s].cause = "drop"
           /\ target.shadow.data # <<>>
           /\ TeardownCommit(s)) => target'.real = target.real]_vars

\* the sessions that hold the lock of the target path
Holders == {s \in Sessions : sessions[s].held}

\* C25: under every interleaving of sessions, of one process or of several,
\* that request the lock of one path, at most one session holds it at any
\* time; a session in the window between its check and its create does not
\* get the lock while another holds it.
C25_OneHolder ==
    /\ Cardinality(Holders) <= 1
    /\ Holders # {} => target.marker

\* one session holds the lock while another, which saw the marker absent,
\* is about to create it
C25_Witness ==
    \E s, t \in Sessions :
        /\ sessions[s].held
        /\ sessions[t].st = "create"

\* the steps close() has to take for a session, from its flags alone
TeardownOrder(ss) ==
    <<"handle">> \o (IF ss.atomic THEN <<"commit">> ELSE <<>>)
                 \o (IF ss.lock THEN <<"release">> ELSE <<>>)

\* C26: a session in teardown, entered by an explicit close or by a drop,
\* has taken a prefix of handle-close, commit, release as its flags require,
\* whatever the cause; the lock is not released before the handle is closed,
\* close() returns only after all the steps, and no destroyed session holds
\* the lock.
C26_TeardownOrder ==
    \A s \in Sessions :
        LET ss == sessions[s] IN
        /\ ss.st = "teardown" =>
              /\ Len(ss.log) <= Len(TeardownOrder(ss))
              /\ ss.log = SubSeq(TeardownOrder(ss), 1, Len(ss.log))
              /\ ss.handle = "open" => (ss.held = ss.lock)
              /\ NextStep(ss) = "end" => ss.log = TeardownOrder(ss) /\ ~ss.held
        /\ ss.st = "new" => ~ss.held

\* a dropped session with lock and atomic mode that has closed its handle,
\* committed and released
C26_Witness ==
    \E s \in Sessions :
        /\ sessions[s].st = "teardown"
        /\ sessions[s].cause = "drop"
        /\ sessions[s].log = <<"handle", "commit", "release">>

\* the start_kernel calls that have raised
FailedStarts == {h \in Procs : startCall[h].pc \in {"dirfail", "parsefail", "timeout"}}

\* C27: a start_kernel call that has failed after spawning, at whichever
\* step (runtime directory lookup, timeout, artifact that cannot be read),
\* has left its process not alive and in no registry entry.
C27_FailedStartLeavesNoProcess ==
    \A h \in FailedStarts :
        /\ ~IsAlive(proc[h])
        /\ \A k \in DOMAIN kernels : kernels[k] # h

\* the handles a start_kernel call has registered and no stop_kernel call
\* has taken out
StartedNotStopped ==
    {h \in Procs : startCall[h].pc = "ok" /\ stopCall[h].pc = "none"}

\* C28: while the server runs, every handle that start_kernel registered and
\* that stop_kernel was not called on is still in the registry, under the key
\* it was registered with: no later start_kernel has removed or replaced it.
C28_EntriesStayUntilStopped ==
    phase = "serving" =>
        \A h \in StartedNotStopped :
            /\ startCall[h].key \in DOMAIN kernels
            /\ kernels[startCall[h].key] = h

\* the stop_kernel calls that have popped their entry and not yet returned
StopsInFlight == {h \in Procs : stopCall[h].pc \in {"joining", "joined"}}

\* C29: of the stop_kernel calls for one key that run at the same time, only
\* one has removed an entry and sent terminate; every other one has failed
\* with KeyNotFound, so no two calls in flight have popped the same key.
C29_OneStopPerKey ==
    \A h, g \in StopsInFlight :
        stopCall[h].key = stopCall[g].key => h = g

\* C30: when the dispatcher has finished with a message that came in while
\* no transfer was in progress, at least one message has been sent in reply
\* (data, eof, write_complete or error), for every decodable message, the
\* empty JSON object included.
C30_EveryMessageAnswered ==
    (hpc = "done" /\ req.method # "malformed") => out # <<>>

\* C31: read_block with a delimiter, on a regular file and with a nominal
\* range [offset, min(size, offset + length)) that is not reversed, streams
\* at least the bytes of the nominal range: the delimiter can only move the
\* end of the range forward.  Stated for delimiters given as bytes, which
\* the search accepts.
C31_DelimiterOnlyExtends ==
    LET data == disk[req.path].data
        off == Max(0, Val(req.a))
        nominal == IF req.b = {} THEN Len(data) ELSE Min(Len(data), off + Val(req.b))
        got == Decoded(out)
    IN (ReadBlockDone /\ req.delim.kind = "bytes" /\ off <= nominal) =>
          /\ Len(got) >= nominal - off
          /\ SubSeq(got, 1, nominal - off) = Slice(data, off, nominal)

\* the bytes a sender encoded to get the payload c: a payload that is the
\* encoding of no byte string carries none
Plain(c) ==
    LET from == {b \in SeqsUpTo(ByteVals, 1) : B64Encode(b) = c}
    IN IF from = {} THEN <<>> ELSE CHOOSE b \in from : TRUE

\* the bytes carried by a sequence of payloads, in order
RECURSIVE PlainAll(_)
PlainAll(cs) == IF cs = <<>> THEN <<>> ELSE Plain(Head(cs)) \o PlainAll(Tail(cs))

\* C32: whenever write_complete has been sent for a write_file transfer, the
\* target file holds exactly the bytes of the payloads of the data messages
\* received for the transfer, in arrival order, and nothing of what it held
\* before the transfer.
C32_FileIsWhatWasSent ==
    (req.method = "write_file" /\ Sent("write_complete") # {}) =>
        /\ disk[req.path].kind = "file"
        /\ disk[req.path].data = PlainAll(received)

\* a transfer of two data messages onto a file that held something else has
\* been confirmed
C32_Witness ==
    /\ req.method = "write_file"
    /\ Sent("write_complete") # {}
    /\ Len(received) = 2
    /\ disk[req.path].data = <<10, 255>>

\* an inbound message that orjson.loads rejects
Malformed == [kind |-> "malformed", data |-> <<>>]

\* data messages whose payload is the encoding of a byte
GoodData == {m \in Inbound : m.kind = "data" /\ Plain(m.data) # <<>>}

\* C33: a malformed message read inside the receive loop of write_file is
\* answered with exactly one error message and the transfer goes on: the
\* handle stays open and the file keeps its bytes; a data message read after
\* an error was answered inside the loop is still appended to the file.
C33_MalformedKeepsTransfer ==
    [][/\ WriteLoop(Malformed) =>
            /\ out' = Append(out, ErrorMsg)
            /\ hpc' = "recv" /\ fh' = "open" /\ endedBy' = "none"
            /\ chan' = "open" /\ ~escaped'
            /\ disk' = disk
       /\ \A m \in GoodData :
            (Sent("error") # {} /\ WriteLoop(m)) =>
                /\ disk'[req.path].data = disk[req.path].data \o Plain(m.data)
                /\ hpc' = "recv" /\ fh' = "open"]_vars

\* the loop goes on after a malformed message, with bytes of the transfer in
\* the file
C33_Witness ==
    /\ hpc = "recv"
    /\ fh = "open"
    /\ out = <<ErrorMsg>>
    /\ received # <<>>
    /\ disk[req.path].data = PlainAll(received)

====
